---- MODULE Spec2Model ----
(***************************************************************************)
(* Model of the wikilink parser of eleventy-plugin-interlinker            *)
(* (src/wikilink-parser.js): the WikilinkParser class with its link cache *)
(* and dead-link set, and the operations parseSingle, parseMultiple and   *)
(* find.                                                                   *)
(*                                                                         *)
(* JavaScript strings are modelled as sequences of one-character strings, *)
(* so that slicing, splitting, trimming and matching are computed as the  *)
(* code computes them.  The JavaScript values null and undefined are the  *)
(* one-element sequences null and undefined below, which no string of     *)
(* characters equals.                                                      *)
(***************************************************************************)
EXTENDS Integers, Sequences, FiniteSets, TLC

null == <<"null">>
undefined == <<"undefined">>

(***************************************************************************)
(* JavaScript string primitives used by the parser.                       *)
(***************************************************************************)
UpperCase == <<"A", "B", "C", "D", "E", "F", "G", "H", "I", "J", "K", "L", "M", "N", "O", "P", "Q", "R", "S", "T", "U", "V", "W", "X", "Y", "Z">>
LowerCase == <<"a", "b", "c", "d", "e", "f", "g", "h", "i", "j", "k", "l", "m", "n", "o", "p", "q", "r", "s", "t", "u", "v", "w", "x", "y", "z">>

\* String.prototype.toLowerCase, one character
LowerChar(c) ==
  IF \E i \in 1..26 : UpperCase[i] = c
    THEN LowerCase[CHOOSE i \in 1..26 : UpperCase[i] = c]
    ELSE c

toLowerCase(s) == [i \in 1..Len(s) |-> LowerChar(s[i])]

\* the characters String.prototype.trim removes and \s matches
WhiteSpace == {" ", "\t", "\n", "\r"}

\* the characters the regular expression atom . does not match
LineTerminators == {"\n", "\r"}

startsWith(s, p) == Len(s) >= Len(p) /\ SubSeq(s, 1, Len(p)) = p

endsWith(s, p) == Len(s) >= Len(p) /\ SubSeq(s, Len(s) - Len(p) + 1, Len(s)) = p

\* String.prototype.includes for a one-character needle
includes(s, c) == \E i \in 1..Len(s) : s[i] = c

\* String.prototype.slice(from) with from >= 0 (0-based)
sliceFrom(s, from) == SubSeq(s, from + 1, Len(s))

\* String.prototype.slice(from, -back) with from >= 0, back > 0
sliceBetween(s, from, back) == SubSeq(s, from + 1, Len(s) - back)

\* String.prototype.at(-1): the last character, undefined for ''
atLast(s) == IF Len(s) = 0 THEN undefined ELSE <<s[Len(s)]>>

RECURSIVE trimStart(_)
trimStart(s) ==
  IF Len(s) > 0 /\ s[1] \in WhiteSpace THEN trimStart(Tail(s)) ELSE s

RECURSIVE trimEnd(_)
trimEnd(s) ==
  IF Len(s) > 0 /\ s[Len(s)] \in WhiteSpace
    THEN trimEnd(SubSeq(s, 1, Len(s) - 1))
    ELSE s

trim(s) == trimEnd(trimStart(s))

\* String.prototype.split for a one-character separator: every occurrence
\* of the separator splits, and '' splits into ['']
RECURSIVE split(_, _)
split(s, c) ==
  IF ~includes(s, c)
    THEN <<s>>
    ELSE LET i == CHOOSE k \in 1..Len(s) :
                    s[k] = c /\ \A j \in 1..(k - 1) : s[j] # c
         IN <<SubSeq(s, 1, i - 1)>> \o split(SubSeq(s, i + 1, Len(s)), c)

\* Array.prototype.join for a one-character separator
RECURSIVE join(_, _)
join(parts, c) ==
  IF Len(parts) = 0 THEN <<>>
  ELSE IF Len(parts) = 1 THEN parts[1]
  ELSE parts[1] \o <<c>> \o join(Tail(parts), c)

\* Array.prototype.slice(0, -n) with n > 0
sliceOff(parts, n) == SubSeq(parts, 1, Len(parts) - n)

\* position of the first occurrence of pat in s, 0 when there is none
indexOf(s, pat) ==
  LET hits == {i \in 1..(Len(s) - Len(pat) + 1) :
                 SubSeq(s, i, i + Len(pat) - 1) = pat}
  IN IF hits = {} THEN 0 ELSE CHOOSE i \in hits : \A j \in hits : i <= j

\* String.prototype.replace(pat, rep) for a string pattern: the first
\* occurrence only
replace(s, pat, rep) ==
  LET i == indexOf(s, pat)
  IN IF i = 0 THEN s
     ELSE SubSeq(s, 1, i - 1) \o rep \o SubSeq(s, i + Len(pat), Len(s))

\* name.replace(/.(md|markdown)\s?$/i, ""): the leftmost match of any one
\* character but a line terminator, then md or markdown in any case, then
\* at most one white space, at the end of the string
stripMarkdownExtension(s) ==
  LET low == toLowerCase(s)
      starts == {i \in 1..Len(s) :
                   /\ s[i] \notin LineTerminators
                   /\ \E ext \in {<<"m", "d">>, <<"m", "a", "r", "k", "d", "o", "w", "n">>} :
                        \E ws \in 0..1 :
                          /\ i + Len(ext) + ws = Len(s)
                          /\ SubSeq(low, i + 1, i + Len(ext)) = ext
                          /\ ws = 1 => s[Len(s)] \in WhiteSpace}
  IN IF starts = {} THEN s
     ELSE SubSeq(s, 1, (CHOOSE i \in starts : \A j \in starts : i <= j) - 1)

(***************************************************************************)
(* node:path (POSIX) and node:fs as findImageFile uses them.  A file      *)
(* system is the set of the absolute paths of its files; its directories  *)
(* are the proper prefixes of those paths.                                 *)
(***************************************************************************)
isAbsolute(p) == startsWith(p, <<"/">>)

\* resolution of the segments '', '.' and '..' of a path, left to right
RECURSIVE normalizeSegments(_, _, _)
normalizeSegments(segs, done, absolute) ==
  IF Len(segs) = 0 THEN done
  ELSE LET seg == segs[1]
           rest == Tail(segs)
       IN IF seg = <<>> \/ seg = <<".">>
            THEN normalizeSegments(rest, done, absolute)
          ELSE IF seg = <<".", ".">>
            THEN IF Len(done) > 0 /\ done[Len(done)] # <<".", ".">>
                   THEN normalizeSegments(rest, SubSeq(done, 1, Len(done) - 1), absolute)
                 ELSE IF absolute
                   THEN normalizeSegments(rest, done, absolute)
                 ELSE normalizeSegments(rest, Append(done, seg), absolute)
          ELSE normalizeSegments(rest, Append(done, seg), absolute)

\* path.normalize, without the trailing slash it keeps
normalize(p) ==
  LET segs == normalizeSegments(split(p, "/"), <<>>, isAbsolute(p))
  IN IF isAbsolute(p) THEN <<"/">> \o join(segs, "/")
     ELSE IF Len(segs) = 0 THEN <<".">>
     ELSE join(segs, "/")

\* path.join of two parts
pathJoin(a, b) ==
  normalize(IF Len(a) = 0 THEN b ELSE IF Len(b) = 0 THEN a ELSE a \o <<"/">> \o b)

\* path.resolve(a, b) for an absolute a
pathResolve(a, b) == IF isAbsolute(b) THEN normalize(b) ELSE pathJoin(a, b)

\* path.dirname
dirname(p) ==
  LET q == IF Len(p) > 1 /\ p[Len(p)] = "/" THEN SubSeq(p, 1, Len(p) - 1) ELSE p
      slashes == {i \in 1..Len(q) : q[i] = "/"}
      last == IF slashes = {} THEN 0
              ELSE CHOOSE i \in slashes : \A j \in slashes : j <= i
  IN IF last = 0 THEN <<".">>
     ELSE IF last = 1 THEN <<"/">>
     ELSE SubSeq(q, 1, last - 1)

\* the number of leading segments two lists of segments share
commonSegments(f, t) ==
  CHOOSE n \in 0..Len(f) :
    /\ n <= Len(t) /\ SubSeq(f, 1, n) = SubSeq(t, 1, n)
    /\ \A m \in (n + 1)..Len(f) : ~(m <= Len(t) /\ SubSeq(f, 1, m) = SubSeq(t, 1, m))

\* the way from the directory of segments f to the path of segments t
relativeSegments(f, t) ==
  join([i \in 1..(Len(f) - commonSegments(f, t)) |-> <<".", ".">>]
         \o SubSeq(t, commonSegments(f, t) + 1, Len(t)), "/")

\* path.relative(from, to) for two absolute paths
pathRelative(from, to) ==
  relativeSegments(normalizeSegments(split(from, "/"), <<>>, TRUE),
                   normalizeSegments(split(to, "/"), <<>>, TRUE))

\* the last segment of a path
lastSegment(p) == LET segs == split(p, "/") IN segs[Len(segs)]

\* path.extname
extname(p) ==
  LET base == lastSegment(p)
      dots == {i \in 2..Len(base) : base[i] = "."}
  IN IF dots = {} THEN <<>>
     ELSE SubSeq(base, CHOOSE i \in dots : \A j \in dots : j <= i, Len(base))

\* path.basename(p, ext)
basename(p, ext) ==
  LET base == lastSegment(p)
  IN IF Len(ext) > 0 /\ endsWith(base, ext) /\ base # ext
       THEN SubSeq(base, 1, Len(base) - Len(ext))
       ELSE base

\* fs.existsSync: a file, or a directory some file lies in
existsSync(files, p) ==
  \E f \in files : f = p \/ startsWith(f, IF p = <<"/">> THEN p ELSE p \o <<"/">>)

\* WikilinkParser.isImageFile
imageExtensions == {<<".", "j", "p", "g">>, <<".", "j", "p", "e", "g">>, <<".", "p", "n", "g">>, <<".", "g", "i", "f">>, <<".", "s", "v", "g">>, <<".", "w", "e", "b", "p">>}

isImageFile(filename) ==
  \E ext \in imageExtensions : endsWith(toLowerCase(filename), ext)

\* findFileRecursively(baseDir, filename): a file of that name anywhere
\* under dir; the order of the directory listing decides between several,
\* which the file systems of this model never hold
findFileRecursively(files, dir, filename) ==
  LET under == {f \in files : startsWith(f, IF dir = <<"/">> THEN dir ELSE dir \o <<"/">>)
                              /\ lastSegment(f) = filename}
  IN IF under = {} THEN null ELSE CHOOSE f \in under : TRUE

\* WikilinkParser.findImageFile; the result null is [found |-> FALSE]
notFound == [found |-> FALSE, exists |-> FALSE, href |-> undefined, fullPath |-> undefined]

\* the result for the file fullPath, its href relative to baseDir
imageFound(baseDir, exists, fullPath) ==
  [found |-> TRUE, exists |-> exists,
   href |-> <<"/">> \o pathRelative(baseDir, fullPath), fullPath |-> fullPath]

\* lines 31-40: an absolute path from the project root
absoluteImage(files, imagePath, fullPath) ==
  [found |-> TRUE, exists |-> existsSync(files, fullPath),
   href |-> imagePath, fullPath |-> fullPath]

\* lines 43-58: a path relative to the directory of the current file
relativeImage(files, baseDir, fullPath) ==
  imageFound(baseDir, existsSync(files, fullPath), fullPath)

\* lines 63-74: the directory of the current file, then the project root
searchPaths(imagePath, baseDir, filePathStem) ==
  (IF filePathStem = undefined \/ filePathStem = <<>>
     THEN <<>>
     ELSE <<pathJoin(pathJoin(baseDir, dirname(filePathStem)), imagePath)>>)
  \o <<pathJoin(baseDir, imagePath)>>

\* lines 76-86: the first of the paths that exists, null when none does
firstExisting(files, paths) ==
  IF \E i \in 1..Len(paths) : existsSync(files, paths[i])
    THEN paths[CHOOSE i \in 1..Len(paths) :
                 /\ existsSync(files, paths[i])
                 /\ \A j \in 1..(i - 1) : ~existsSync(files, paths[j])]
    ELSE null

\* lines 89-110: the recursive search, made when no search path exists
searchedImage(baseDir, searchPath, foundPath) ==
  IF searchPath # null THEN imageFound(baseDir, TRUE, searchPath)
  ELSE IF foundPath # null THEN imageFound(baseDir, TRUE, foundPath)
  ELSE notFound

findImageFile(files, imagePath, baseDir, filePathStem) ==
  IF startsWith(imagePath, <<"/">>)
    THEN absoluteImage(files, imagePath, pathJoin(baseDir, sliceFrom(imagePath, 1)))
  ELSE IF startsWith(imagePath, <<".", "/">>) \/ startsWith(imagePath, <<".", ".", "/">>)
    THEN IF filePathStem = undefined \/ filePathStem = <<>>
           THEN notFound
           ELSE relativeImage(files, baseDir,
                              pathResolve(pathJoin(baseDir, dirname(filePathStem)),
                                          imagePath))
  ELSE searchedImage(baseDir,
                     firstExisting(files, searchPaths(imagePath, baseDir, filePathStem)),
                     findFileRecursively(files, baseDir, imagePath))

(***************************************************************************)
(* The page index (pageDirectory).  A page directory is named by the      *)
(* reference of its object and holds a sequence of pages, allPages;       *)
(* findByLink answers with the first page the link names: by filePathStem *)
(* for a path link, by title or fileSlug otherwise, and by alias failing  *)
(* that.  noPage stands for "no page".                                    *)
(***************************************************************************)
helloWorldPage ==
  [inputPath |-> <<"/", "h", "o", "m", "e", "/", "u", "s", "e", "r", "/", "w", "e", "b", "s", "i", "t", "e", "/", "h", "e", "l", "l", "o", "-", "w", "o", "r", "l", "d", ".", "m", "d">>,
   filePathStem |-> <<"/", "h", "e", "l", "l", "o", "-", "w", "o", "r", "l", "d">>,
   fileSlug |-> <<"h", "e", "l", "l", "o", "-", "w", "o", "r", "l", "d">>,
   title |-> <<"H", "e", "l", "l", "o", " ", "W", "o", "r", "l", "d", ",", " ", "T", "i", "t", "l", "e">>,
   url |-> <<"/", "h", "e", "l", "l", "o", "-", "w", "o", "r", "l", "d", "/">>,
   aliases |-> {<<"g", "r", "e", "e", "t", "i", "n", "g">>}]

blogPostPage ==
  [inputPath |-> <<"/", "h", "o", "m", "e", "/", "u", "s", "e", "r", "/", "w", "e", "b", "s", "i", "t", "e", "/", "b", "l", "o", "g", "/", "a", "-", "b", "l", "o", "g", "-", "p", "o", "s", "t", ".", "m", "d">>,
   filePathStem |-> <<"/", "b", "l", "o", "g", "/", "a", "-", "b", "l", "o", "g", "-", "p", "o", "s", "t">>,
   fileSlug |-> <<"a", "-", "b", "l", "o", "g", "-", "p", "o", "s", "t">>,
   title |-> <<"B", "l", "o", "g", " ", "P", "o", "s", "t">>,
   url |-> <<"/", "b", "l", "o", "g", "/", "a", "-", "b", "l", "o", "g", "-", "p", "o", "s", "t", "/">>,
   aliases |-> {}]

\* a page whose title holds a ':'
colonPage ==
  [inputPath |-> <<"/", "h", "o", "m", "e", "/", "u", "s", "e", "r", "/", "w", "e", "b", "s", "i", "t", "e", "/", "n", "o", "t", "e", "s", ".", "m", "d">>,
   filePathStem |-> <<"/", "n", "o", "t", "e", "s">>,
   fileSlug |-> <<"n", "o", "t", "e", "s">>,
   title |-> <<"r", "e", ":", "n", "o", "t", "e", "s">>,
   url |-> <<"/", "n", "o", "t", "e", "s", "/">>,
   aliases |-> {}]

\* the page directories: of no pages, and of the pages above
PageDirectories == {"empty", "website"}

allPages(pageDirectory) ==
  IF pageDirectory = "website"
    THEN <<helloWorldPage, blogPostPage, colonPage>>
    ELSE <<>>

noPage == [inputPath |-> undefined, filePathStem |-> undefined, fileSlug |-> undefined,
           title |-> undefined, url |-> undefined, aliases |-> {}]

pageMatches(page, meta) ==
  IF meta.isPath
    THEN page.filePathStem = meta.name
    ELSE \/ (page.title # undefined /\ page.title # <<>> /\ page.title = meta.name)
         \/ page.fileSlug = meta.name
         \/ meta.name \in page.aliases

findByLink(pageDirectory, meta) ==
  LET pages == allPages(pageDirectory)
      hits == {i \in 1..Len(pages) : pageMatches(pages[i], meta)}
  IN IF hits = {}
       THEN [found |-> FALSE, page |-> noPage, foundByAlias |-> FALSE]
       ELSE LET page == pages[CHOOSE i \in hits : \A j \in hits : i <= j]
            IN [found |-> TRUE, page |-> page,
                foundByAlias |-> /\ ~meta.isPath
                                 /\ page.title # meta.name
                                 /\ page.fileSlug # meta.name]

(***************************************************************************)
(* WikilinkParser.parseSingle, lines 148-276: the interpretation of a     *)
(* link that is not in the cache.                                          *)
(***************************************************************************)
trimAll(parts) == [i \in 1..Len(parts) |-> trim(parts[i])]

\* `${value}` in a template literal
toString(v) == IF v = undefined THEN <<"u", "n", "d", "e", "f", "i", "n", "e", "d">> ELSE v

\* !filePathStem
isFalsy(v) == v = undefined \/ v = null \/ v = <<>>

\* const isEmbed = link.startsWith('!')
isEmbedLink(link) == startsWith(link, <<"!">>)

\* const parts = link.slice((isEmbed ? 3 : 2), -2).split("|").map(part => part.trim())
linkParts(link) ==
  trimAll(split(sliceBetween(link, IF isEmbedLink(link) THEN 3 ELSE 2, 2), "|"))

\* const meta = {...}
newMeta(link) ==
  LET parts == linkParts(link)
  IN [title |-> IF Len(parts) = 2 THEN parts[2] ELSE null,
      name |-> stripMarkdownExtension(parts[1]),
      anchor |-> null,
      link |-> link,
      isEmbed |-> isEmbedLink(link),
      isPath |-> FALSE,
      exists |-> FALSE,
      resolvingFnName |-> IF isEmbedLink(link) THEN <<"d", "e", "f", "a", "u", "l", "t", "-", "e", "m", "b", "e", "d">> ELSE <<"d", "e", "f", "a", "u", "l", "t">>,
      isImage |-> FALSE,
      href |-> undefined,
      path |-> undefined,
      page |-> noPage]

\* anchor link identification
anchorStep(meta) ==
  IF includes(meta.name, "#")
    THEN LET nameParts == trimAll(split(linkParts(meta.link)[1], "#"))
         IN IF atLast(nameParts[1]) # <<"/">>
              THEN [meta EXCEPT !.name = nameParts[1], !.anchor = nameParts[2]]
              ELSE [meta EXCEPT !.name = replace(meta.name, <<"/", "#">>, <<"#">>)]
    ELSE meta

\* meta.isPath = ...
isPathStep(meta) ==
  [meta EXCEPT !.isPath = \/ startsWith(meta.name, <<"/">>)
                          \/ startsWith(meta.name, <<".", ".", "/">>)
                          \/ startsWith(meta.name, <<".", "/">>)]

\* a test for a relative name that leaves out meta.isPath
isRelativeByDot(meta) == startsWith(meta.name, <<".">>)

\* if (meta.isPath && meta.name.startsWith('.'))
isRelative(meta) == meta.isPath /\ startsWith(meta.name, <<".">>)

\* the rewriting of a relative name to a path from the project root
relativeStep(meta, filePathStem) ==
  LET cwd == split(filePathStem, "/")
      relative == split(meta.name, "/")
      stepsBack == Len(SelectSeq(relative, LAMBDA file : file = <<".", ".">>))
  IN [meta EXCEPT !.name =
        join(sliceOff(cwd, stepsBack + 1)
               \o SelectSeq(relative, LAMBDA file : file # <<".", ".">> /\ file # <<".">>),
             "/")]

\* custom resolving fn: the parts of the name around ':'
resolverParts(meta) == trimAll(split(meta.name, ":"))

\* the name holds a ':' that is not escaped
hasResolverPrefix(meta) ==
  includes(meta.name, ":") /\ atLast(resolverParts(meta)[1]) # <<"/">>

\* !this.opts.resolvingFns || this.opts.resolvingFns.has(parts[0]) === false
isUnregistered(options, prefix) ==
  ~options.resolvingFns.defined \/ prefix \notin options.resolvingFns.keys

resolverStep(options, meta) ==
  IF includes(meta.name, ":")
    THEN IF hasResolverPrefix(meta)
           THEN IF isUnregistered(options, resolverParts(meta)[1])
                  THEN meta
                  ELSE [meta EXCEPT !.resolvingFnName = resolverParts(meta)[1],
                                    !.name = resolverParts(meta)[2]]
           ELSE [meta EXCEPT !.name = replace(meta.name, <<"/", ":">>, <<":">>)]
    ELSE meta

\* the image embed: lines 229-252
isImageEmbed(meta) == meta.isEmbed /\ isImageFile(meta.name)

\* an image step that sets no href for an image that was not found
imageStepWithoutStub(options, meta, imageResult) ==
  IF imageResult.found /\ imageResult.exists
    THEN [meta EXCEPT !.isImage = TRUE,
                      !.resolvingFnName = <<"i", "m", "a", "g", "e", "-", "e", "m", "b", "e", "d">>,
                      !.exists = TRUE,
                      !.href = imageResult.href,
                      !.path = imageResult.fullPath,
                      !.title = IF isFalsy(meta.title)
                                  THEN basename(meta.name, extname(meta.name))
                                  ELSE meta.title]
    ELSE [meta EXCEPT !.isImage = TRUE,
                      !.resolvingFnName = <<"4", "0", "4", "-", "e", "m", "b", "e", "d">>]

\* an image step that gives every found image its file name as title
imageStepWithDefaultTitle(options, meta, imageResult) ==
  IF imageResult.found /\ imageResult.exists
    THEN [meta EXCEPT !.isImage = TRUE,
                      !.resolvingFnName = <<"i", "m", "a", "g", "e", "-", "e", "m", "b", "e", "d">>,
                      !.exists = TRUE,
                      !.href = imageResult.href,
                      !.path = imageResult.fullPath,
                      !.title = basename(meta.name, extname(meta.name))]
    ELSE [meta EXCEPT !.isImage = TRUE,
                      !.href = options.stubUrl,
                      !.resolvingFnName = <<"4", "0", "4", "-", "e", "m", "b", "e", "d">>]

imageStep(options, meta, imageResult) ==
  IF imageResult.found /\ imageResult.exists
    THEN [meta EXCEPT !.isImage = TRUE,
                      !.resolvingFnName = <<"i", "m", "a", "g", "e", "-", "e", "m", "b", "e", "d">>,
                      !.exists = TRUE,
                      !.href = imageResult.href,
                      !.path = imageResult.fullPath,
                      !.title = IF isFalsy(meta.title)
                                  THEN basename(meta.name, extname(meta.name))
                                  ELSE meta.title]
    ELSE [meta EXCEPT !.isImage = TRUE,
                      !.href = options.stubUrl,
                      !.resolvingFnName = <<"4", "0", "4", "-", "e", "m", "b", "e", "d">>]

\* an image embed that never adds its link to deadLinks
imageNeverDead(imageResult) == FALSE

\* the image was not found: this.deadLinks.add(link)
imageIsDead(imageResult) == ~(imageResult.found /\ imageResult.exists)

\* resolvingFnName is one of the two default variants
isDefaultFn(meta) == meta.resolvingFnName \in {<<"d", "e", "f", "a", "u", "l", "t">>, <<"d", "e", "f", "a", "u", "l", "t", "-", "e", "m", "b", "e", "d">>}

\* the page lookup: lines 256-276
pageStep(options, meta, r) ==
  IF r.found
    THEN [meta EXCEPT !.title = IF r.foundByAlias THEN meta.name
                                ELSE IF meta.title = null /\ ~isFalsy(r.page.title)
                                  THEN r.page.title
                                ELSE meta.title,
                      !.href = r.page.url,
                      !.path = r.page.inputPath,
                      !.exists = TRUE,
                      !.page = r.page]
  ELSE IF isDefaultFn(meta)
    THEN [meta EXCEPT !.href = options.stubUrl,
                      !.resolvingFnName = IF meta.isEmbed THEN <<"4", "0", "4", "-", "e", "m", "b", "e", "d">>
                                          ELSE meta.resolvingFnName]
  ELSE meta

\* a page lookup that counts every link without a page as dead
pageIsDeadForEveryFn(meta, r) == ~r.found

\* the page was not found: this.deadLinks.add(link)
pageIsDead(meta, r) == ~r.found /\ isDefaultFn(meta)

\* the two errors parseSingle throws
MissingContextMessage == <<"U", "n", "a", "b", "l", "e", " ", "t", "o", " ", "d", "o", " ", "r", "e", "l", "a", "t", "i", "v", "e", " ", "p", "a", "t", "h", " ", "l", "o", "o", "k", "u", "p", " ", "o", "f", " ", "w", "i", "k", "i", "l", "i", "n", "k", ".">>

UnresolvedResolverMessage(prefix, link, filePathStem) ==
  <<"U", "n", "a", "b", "l", "e", " ", "t", "o", " ", "f", "i", "n", "d", " ", "r", "e", "s", "o", "l", "v", "i", "n", "g", " ", "f", "n", " ", "[">> \o prefix \o <<"]", " ", "f", "o", "r", " ", "w", "i", "k", "i", "l", "i", "n", "k", " ">> \o link
    \o <<" ", "o", "n", " ", "p", "a", "g", "e", " ", "[">> \o toString(filePathStem) \o <<"]">>

\* what parseSingle has made of a link before the cache is written: the
\* record, whether the link is added to deadLinks, and the number of
\* findByLink calls made
completed(meta, dead, lookups) ==
  [threw |-> FALSE, message |-> <<>>, meta |-> meta, dead |-> dead, lookups |-> lookups]

thrown(message, meta, lookups) ==
  [threw |-> TRUE, message |-> message, meta |-> meta, dead |-> FALSE,
   lookups |-> lookups]

\* lines 230-252 for the result imageResult of findImageFile
imageLookup(options, meta, imageResult, lookups) ==
  completed(imageStep(options, meta, imageResult), imageIsDead(imageResult), lookups)

\* lines 256-276 for the result r of findByLink
pageLookup(options, meta, r, lookups) ==
  completed(pageStep(options, meta, r), pageIsDead(meta, r), lookups + 1)

\* lines 229-276: the image embed or the page lookup of the record meta, after
\* lookups calls of findByLink
lookupStep(options, baseDir, files, pageDirectory, filePathStem, meta, lookups) ==
  IF isImageEmbed(meta)
    THEN imageLookup(options, meta,
                     findImageFile(files, meta.name, baseDir, filePathStem), lookups)
    ELSE pageLookup(options, meta, findByLink(pageDirectory, meta), lookups)

\* the prefix of the name is not a registered resolving fn: line 217
isFallback(options, meta) ==
  hasResolverPrefix(meta) /\ isUnregistered(options, resolverParts(meta)[1])

\* lines 214-276: the custom resolving fn of the record meta and what follows
resolverLookup(options, baseDir, files, pageDirectory, filePathStem, meta) ==
  IF isFallback(options, meta) /\ ~findByLink(pageDirectory, meta).found
    THEN thrown(UnresolvedResolverMessage(resolverParts(meta)[1], meta.link,
                                          filePathStem), meta, 1)
    ELSE lookupStep(options, baseDir, files, pageDirectory, filePathStem,
                    resolverStep(options, meta),
                    IF isFallback(options, meta) THEN 1 ELSE 0)

\* lines 195-276: the relative path lookup of the record meta and what follows
relativeLookup(options, baseDir, files, pageDirectory, filePathStem, meta) ==
  IF isRelative(meta) /\ isFalsy(filePathStem)
    THEN thrown(MissingContextMessage, meta, 0)
    ELSE resolverLookup(options, baseDir, files, pageDirectory, filePathStem,
                        IF isRelative(meta) THEN relativeStep(meta, filePathStem)
                        ELSE meta)

\* lines 148-276 as a whole
interpret(options, baseDir, files, link, pageDirectory, filePathStem) ==
  relativeLookup(options, baseDir, files, pageDirectory, filePathStem,
                 isPathStep(anchorStep(newMeta(link))))

(***************************************************************************)
(* wikiLinkRegExp and String.prototype.match with the g flag:             *)
(*   /(?<!!)(!?)\[\[([^|\n]+?)(\|([^\n]+?))?]]/g                          *)
(***************************************************************************)
\* the text at position p is ]]
closesAt(document, p) ==
  p + 1 <= Len(document) /\ document[p] = "]" /\ document[p + 1] = "]"

\* the end of the match whose name segment ends right before position p,
\* 0 when the rest of the expression does not match there
matchAfterName(document, p) ==
  IF p <= Len(document) /\ document[p] = "|"
    THEN LET lengths == {m \in 1..(Len(document) - p) :
                           /\ \A x \in (p + 1)..(p + m) : document[x] # "\n"
                           /\ closesAt(document, p + m + 1)}
         IN IF lengths = {} THEN 0
            ELSE p + (CHOOSE m \in lengths : \A n \in lengths : m <= n) + 2
    ELSE IF closesAt(document, p) THEN p + 1 ELSE 0

\* the end of the match that starts at position i, 0 when there is none
matchAt(document, i) ==
  LET open == IF document[i] = "!" THEN i + 1 ELSE i
      first == open + 2
      lengths == {k \in 1..(Len(document) - first + 1) :
                    /\ \A x \in first..(first + k - 1) : document[x] \notin {"|", "\n"}
                    /\ matchAfterName(document, first + k) # 0}
  IN IF /\ (i = 1 \/ document[i - 1] # "!")
        /\ open + 1 <= Len(document)
        /\ document[open] = "[" /\ document[open + 1] = "["
        /\ lengths # {}
       THEN matchAfterName(document,
                           first + (CHOOSE k \in lengths : \A n \in lengths : k <= n))
       ELSE 0

\* document.match(this.wikiLinkRegExp) || []: the matches from position i on,
\* left to right, each search resuming after the last match
RECURSIVE matchFrom(_, _)
matchFrom(document, i) ==
  IF i > Len(document) THEN <<>>
  ELSE LET end == matchAt(document, i)
       IN IF end = 0 THEN matchFrom(document, i + 1)
          ELSE <<SubSeq(document, i, end)>> \o matchFrom(document, end + 1)

matchAll(document) == matchFrom(document, 1)

(***************************************************************************)
(* The inputs of the model: the options, file systems, referencing paths  *)
(* and links the calls are made with.                                      *)
(***************************************************************************)
\* opts.resolvingFns: a Map, of which the parser reads the keys only, or undefined
Map(keys) == [defined |-> TRUE, keys |-> keys]

noMap == [defined |-> FALSE, keys |-> {}]

\* opts.imageExtensions: an array of extensions, or undefined
Array(items) == [defined |-> TRUE, items |-> items]

noArray == [defined |-> FALSE, items |-> {}]

\* the options of the parser tests: three resolving functions, a stub URL and
\* five image extensions
testOpts ==
  [resolvingFns |-> Map({<<"d", "e", "f", "a", "u", "l", "t">>, <<"d", "e", "f", "a", "u", "l", "t", "-", "e", "m", "b", "e", "d">>, <<"d", "e", "f", "a", "u", "l", "t", "-", "i", "m", "a", "g", "e">>}),
   stubUrl |-> <<"/", "s", "t", "u", "b", "s", "/">>,
   imageExtensions |-> Array({<<".", "p", "n", "g">>, <<".", "s", "v", "g">>, <<".", "j", "p", "g">>, <<".", "j", "p", "e", "g">>, <<".", "g", "i", "f">>})]

\* options with a custom resolving function
customOpts ==
  [resolvingFns |-> Map({<<"t", "e", "s", "t">>}), stubUrl |-> <<"/", "s", "t", "u", "b", "s", "/">>, imageExtensions |-> noArray]

\* the options of the renderer tests: image extensions only
bareOpts ==
  [resolvingFns |-> noMap, stubUrl |-> undefined,
   imageExtensions |-> Array({<<".", "p", "n", "g">>, <<".", "s", "v", "g">>, <<".", "j", "p", "g">>, <<".", "j", "p", "e", "g">>})]

Options == {testOpts, customOpts, bareOpts}

\* the content tree: one image
contentTree == {<<"/", "s", "i", "t", "e", "/", "i", "m", "g", "/", "i", "m", "a", "g", "e", ".", "p", "n", "g">>}

FileSystems == {{}, contentTree}

\* process.cwd(), and the directories setInputDir is called with
cwd == <<"/", "s", "i", "t", "e">>

InputDirs == {<<"/", "s", "i", "t", "e">>, <<"/", "d", "r", "a", "f", "t", "s">>}

\* the referencing paths of the engine runs
FilePathStems == {undefined, <<"/", "b", "l", "o", "g", "/", "s", "u", "b", "-", "d", "i", "r", "/", "s", "o", "m", "e", "-", "p", "a", "g", "e">>}

\* the links of the engine runs
Links ==
  {<<"[", "[", "h", "e", "l", "l", "o", "-", "w", "o", "r", "l", "d", "]", "]">>, <<"[", "[", "i", "n", "v", "a", "l", "i", "d", "]", "]">>, <<"!", "[", "[", "i", "n", "v", "a", "l", "i", "d", "]", "]">>, <<"[", "[", ".", ".", "/", "a", "-", "b", "l", "o", "g", "-", "p", "o", "s", "t", ".", "m", "d", "]", "]">>,
   <<"[", "[", "f", "a", "i", "l", ":", "1", "2", "3", "4", "]", "]">>, <<"!", "[", "[", "i", "m", "a", "g", "e", ".", "p", "n", "g", "]", "]">>}

LinkLists ==
  {<<>>,
   <<<<"[", "[", "h", "e", "l", "l", "o", "-", "w", "o", "r", "l", "d", "]", "]">>, <<"[", "[", "i", "n", "v", "a", "l", "i", "d", "]", "]">>, <<"[", "[", "h", "e", "l", "l", "o", "-", "w", "o", "r", "l", "d", "]", "]">>>>,
   <<<<"!", "[", "[", "i", "n", "v", "a", "l", "i", "d", "]", "]">>, <<"[", "[", ".", ".", "/", "a", "-", "b", "l", "o", "g", "-", "p", "o", "s", "t", ".", "m", "d", "]", "]">>, <<"[", "[", "i", "n", "v", "a", "l", "i", "d", "]", "]">>>>,
   <<<<"[", "[", "i", "n", "v", "a", "l", "i", "d", "]", "]">>, <<"[", "[", "f", "a", "i", "l", ":", "1", "2", "3", "4", "]", "]">>, <<"!", "[", "[", "i", "m", "a", "g", "e", ".", "p", "n", "g", "]", "]">>>>}

Documents ==
  {<<"s", "e", "e", " ", "[", "[", "h", "e", "l", "l", "o", "-", "w", "o", "r", "l", "d", "]", "]", " ", "a", "n", "d", " ", "!", "[", "[", "i", "n", "v", "a", "l", "i", "d", "]", "]", ",", " ", "[", "[", "h", "e", "l", "l", "o", "-", "w", "o", "r", "l", "d", "]", "]">>,
   <<"[", "[", " ", "b", "r", "o", "k", "e", "n", " ", "\n", "w", "i", "k", "i", "l", "i", "n", "k", " ", "]", "]", " ", "!", "!", "[", "[", "i", "n", "v", "a", "l", "i", "d", "]", "]", " ", "[", "[", "i", "n", "v", "a", "l", "i", "d", "]", "]">>,
   <<"[", "[", "i", "n", "v", "a", "l", "i", "d", "]", "]", "[", "[", ".", ".", "/", "a", "-", "b", "l", "o", "g", "-", "p", "o", "s", "t", ".", "m", "d", "]", "]", "!", "[", "[", "i", "m", "a", "g", "e", ".", "p", "n", "g", "]", "]">>}

\* the referencing paths of the single interpretations
ParseStems ==
  {undefined, <<>>, <<"/", "b", "l", "o", "g", "/", "s", "u", "b", "-", "d", "i", "r", "/", "s", "o", "m", "e", "-", "p", "a", "g", "e">>, <<"/", "b", "l", "o", "g", "/", "s", "u", "b", "-", "d", "i", "r", "/", "s", "u", "b", "-", "d", "i", "r", "/", "s", "o", "m", "e", "-", "p", "a", "g", "e">>,
   <<"/", "i", "n", "d", "e", "x">>}

\* the links of the single interpretations
ParseLinks ==
  Links \cup
  {<<"!", "[", "[", "h", "e", "l", "l", "o", "-", "w", "o", "r", "l", "d", "]", "]">>, <<"[", "[", "w", "i", "k", "i", " ", "l", "i", "n", "k", "]", "]">>,
   <<"[", "[", "h", "e", "l", "l", "o", "-", "w", "o", "r", "l", "d", "|", "H", "o", "w", "d", "y", "]", "]">>, <<"[", "[", "h", "e", "l", "l", "o", "-", "w", "o", "r", "l", "d", "|", "c", "u", "s", "t", "o", "m", " ", "t", "i", "t", "l", "e", "]", "]">>,
   <<"[", "[", " ", "h", "e", "l", "l", "o", "-", "w", "o", "r", "l", "d", " ", " ", " ", "|", " ", " ", "c", "u", "s", "t", "o", "m", " ", "t", "i", "t", "l", "e", " ", "]", "]">>, <<"[", "[", "n", "a", "m", "e", "|", "t", "i", "t", "l", "e", "]", "]">>, <<"[", "[", " ", "n", "a", "m", "e", " ", "|", " ", "t", "i", "t", "l", "e", " ", "]", "]">>,
   <<"[", "[", "a", "|", "b", "|", "c", "]", "]">>, <<"[", "[", "g", "r", "e", "e", "t", "i", "n", "g", "]", "]">>, <<"[", "[", "g", "r", "e", "e", "t", "i", "n", "g", "|", "H", "i", "]", "]">>,
   <<"[", "[", "p", "a", "g", "e", "#", "s", "e", "c", "t", "i", "o", "n", "]", "]">>, <<"[", "[", "h", "e", "l", "l", "o", "-", "w", "o", "r", "l", "d", "#", "h", "e", "a", "d", "i", "n", "g", " ", "o", "n", "e", "]", "]">>, <<"[", "[", "P", "a", "g", "e", " ", "a", "b", "o", "u", "t", " ", "C", "/", "#", "]", "]">>,
   <<"[", "[", "a", "#", "b", "#", "c", "]", "]">>, <<"[", "[", "p", "a", "g", "e", "#", "m", "d", "]", "]">>, <<"[", "[", "a", "/", " ", "#", "b", "]", "]">>, <<"[", "[", "n", "o", "t", "e", "s", ".", "m", "d", "#", "t", "o", "p", "|", "N", "o", "t", "e", "s", "]", "]">>,
   <<"[", "[", "/", "b", "l", "o", "g", "/", "a", "-", "b", "l", "o", "g", "-", "p", "o", "s", "t", ".", "m", "d", "]", "]">>, <<"[", "[", ".", ".", "/", ".", ".", "/", "a", "-", "b", "l", "o", "g", "-", "p", "o", "s", "t", ".", "m", "d", "]", "]">>, <<"[", "[", ".", "/", "a", "/", ".", ".", "/", "b", "]", "]">>,
   <<"[", "[", ".", "/", "s", "i", "b", "l", "i", "n", "g", "]", "]">>, <<"[", "[", ".", "h", "i", "d", "d", "e", "n", "]", "]">>, <<"[", "[", ".", ".", "/", ".", ".", "/", ".", ".", "/", "x", "]", "]">>, <<"[", "[", "/", "n", "o", "t", "e", "s", "#", "t", "o", "p", "]", "]">>,
   <<"[", "[", "t", "e", "s", "t", ":", "1", "2", "3", "4", "]", "]">>, <<"[", "[", "t", "e", "s", "t", ":", "a", ":", "b", "]", "]">>, <<"[", "[", " ", "t", "e", "s", "t", " ", ":", " ", "1", "2", "3", "4", " ", "]", "]">>, <<"[", "[", "a", "/", ":", "b", "]", "]">>, <<"[", "[", "a", "/", " ", ":", "b", "]", "]">>,
   <<"[", "[", "r", "e", ":", "n", "o", "t", "e", "s", "]", "]">>, <<"!", "[", "[", "r", "e", ":", "n", "o", "t", "e", "s", "]", "]">>, <<"!", "[", "[", "t", "e", "s", "t", ":", "1", "2", "3", "4", "]", "]">>, <<"[", "[", "d", "e", "f", "a", "u", "l", "t", ":", "x", "]", "]">>,
   <<"!", "[", "[", "p", "h", "o", "t", "o", ".", "J", "P", "G", "]", "]">>, <<"[", "[", "p", "h", "o", "t", "o", ".", "J", "P", "G", "]", "]">>, <<"!", "[", "[", "/", "i", "m", "g", "/", "i", "m", "a", "g", "e", ".", "p", "n", "g", "|", "3", "0", "0", "]", "]">>,
   <<"!", "[", "[", "d", "o", "c", "u", "m", "e", "n", "t", ".", "p", "d", "f", "]", "]">>, <<"!", "[", "[", "t", "e", "s", "t", ":", "i", "m", "a", "g", "e", ".", "p", "n", "g", "]", "]">>, <<"!", "[", "[", "c", "l", "i", "p", ".", "w", "e", "b", "p", "]", "]">>,
   <<"[", "[", "n", "o", "t", "e", "s", ".", "m", "d", "]", "]">>, <<"[", "[", "a", "m", "d", "]", "]">>, <<"[", "[", "r", "e", "a", "d", "m", "e", ".", "M", "a", "r", "k", "d", "o", "w", "n", "]", "]">>}

\* the record a caller has put into the cache it hands to the constructor
seededMeta ==
  [title |-> <<"W", "i", "k", "i", " ", "L", "i", "n", "k">>, name |-> undefined, anchor |-> undefined,
   link |-> <<"[", "[", "w", "i", "k", "i", " ", "l", "i", "n", "k", "]", "]">>, isEmbed |-> FALSE, isPath |-> FALSE,
   exists |-> FALSE, resolvingFnName |-> undefined, isImage |-> FALSE,
   href |-> <<"/", "w", "i", "k", "i", "-", "l", "i", "n", "k", "/">>, path |-> undefined, page |-> noPage]

\* the most records the cache of an engine run holds
MaxCache == 3

\* interpret and matchAll on the inputs of the engine runs, computed once
interpreted ==
  [link \in Links |-> [filePathStem \in FilePathStems |->
    [pageDirectory \in PageDirectories |-> [dir \in InputDirs |->
      interpret(testOpts, dir, contentTree, link, pageDirectory, filePathStem)]]]]

interpretOnce(o, dir, files, link, pageDirectory, filePathStem) ==
  IF /\ o = testOpts /\ files = contentTree /\ link \in Links
     /\ filePathStem \in FilePathStems /\ dir \in InputDirs
    THEN interpreted[link][filePathStem][pageDirectory][dir]
    ELSE interpret(o, dir, files, link, pageDirectory, filePathStem)

matched == [document \in Documents |-> matchAll(document)]

(***************************************************************************)
(* The parser: its tables and its three operations.                       *)
(*   linkCache  the Map from a link to the reference of its record        *)
(*   objects    the records the cache refers to, by reference             *)
(*   deadLinks  the Set of the links that did not resolve                 *)
(*   inputDir   this.inputDir                                             *)
(*   opts       this.opts                                                 *)
(*   ret        the last call: its arguments and what it returned or threw*)
(***************************************************************************)
VARIABLES linkCache, objects, deadLinks, inputDir, opts, ret

vars == <<linkCache, objects, deadLinks, inputDir, opts, ret>>

tables == [linkCache |-> linkCache, objects |-> objects, deadLinks |-> deadLinks]

\* a set that drops the other keys of the map
mapReplace(map, key, value) == [k \in {key} |-> value]

\* Map.prototype.set of a new key
mapSet(map, key, value) ==
  [k \in DOMAIN map \cup {key} |-> IF k = key THEN value ELSE map[k]]

\* the bound of the model on the size of the cache
fits(t) == Cardinality(DOMAIN t.linkCache) <= MaxCache

\* a parseSingle that records the link as dead before it throws
cacheSetDeadOnThrow(t, link, r) ==
  IF r.threw
    THEN [tables |-> [t EXCEPT !.deadLinks = @ \cup {link}], threw |-> TRUE,
          message |-> r.message, value |-> 0, hit |-> FALSE, lookups |-> r.lookups]
    ELSE [tables |-> [linkCache |-> mapSet(t.linkCache, link, Len(t.objects) + 1),
                      objects |-> Append(t.objects, r.meta),
                      deadLinks |-> IF r.dead THEN t.deadLinks \cup {link}
                                    ELSE t.deadLinks],
          threw |-> FALSE, message |-> <<>>,
          value |-> Len(t.objects) + 1, hit |-> FALSE, lookups |-> r.lookups]

\* line 280 and the return: the tables after the interpretation r of link,
\* and the outcome of the call
cacheSet(t, link, r) ==
  IF r.threw
    THEN [tables |-> t, threw |-> TRUE, message |-> r.message,
          value |-> 0, hit |-> FALSE, lookups |-> r.lookups]
    ELSE [tables |-> [linkCache |-> mapSet(t.linkCache, link, Len(t.objects) + 1),
                      objects |-> Append(t.objects, r.meta),
                      deadLinks |-> IF r.dead THEN t.deadLinks \cup {link}
                                    ELSE t.deadLinks],
          threw |-> FALSE, message |-> <<>>,
          value |-> Len(t.objects) + 1, hit |-> FALSE, lookups |-> r.lookups]

\* a parseSingle without the cache check of lines 144-146
parseSingleUncached(t, o, dir, files, link, pageDirectory, filePathStem) ==
  cacheSet(t, link, interpretOnce(o, dir, files, link, pageDirectory, filePathStem))

\* one parseSingle call on the tables t: the tables after it and its outcome
parseSingle(t, o, dir, files, link, pageDirectory, filePathStem) ==
  IF link \in DOMAIN t.linkCache
    THEN [tables |-> t, threw |-> FALSE, message |-> <<>>,
          value |-> t.linkCache[link], hit |-> TRUE, lookups |-> 0]
    ELSE cacheSet(t, link,
                  interpretOnce(o, dir, files, link, pageDirectory, filePathStem))

\* links.map(link => this.parseSingle(...)): the calls in order, up to the
\* first that throws; r is the outcome of the call on the first of links
RECURSIVE parseMultiple(_, _, _, _, _, _, _, _)
RECURSIVE mapNext(_, _, _, _, _, _, _, _)
\* a map that puts the record of each later link before the earlier ones
mapNextNewestFirst(r, o, dir, files, links, pageDirectory, filePathStem, done) ==
  IF r.threw
    THEN [tables |-> r.tables, threw |-> TRUE, message |-> r.message, value |-> <<>>]
    ELSE parseMultiple(r.tables, o, dir, files, Tail(links), pageDirectory,
                       filePathStem, <<r.value>> \o done)

mapNext(r, o, dir, files, links, pageDirectory, filePathStem, done) ==
  IF r.threw
    THEN [tables |-> r.tables, threw |-> TRUE, message |-> r.message, value |-> <<>>]
    ELSE parseMultiple(r.tables, o, dir, files, Tail(links), pageDirectory,
                       filePathStem, Append(done, r.value))

parseMultiple(t, o, dir, files, links, pageDirectory, filePathStem, done) ==
  IF Len(links) = 0
    THEN [tables |-> t, threw |-> FALSE, message |-> <<>>, value |-> done]
    ELSE mapNext(parseSingle(t, o, dir, files, links[1], pageDirectory, filePathStem),
                 o, dir, files, links, pageDirectory, filePathStem, done)

noCall == [op |-> "none", document |-> <<>>, links |-> <<>>, filePathStem |-> undefined,
           pageDirectory |-> "none", files |-> {}, threw |-> FALSE, message |-> <<>>,
           value |-> <<>>, hit |-> FALSE, lookups |-> 0]

ParseSingle(link, pageDirectory, filePathStem, files) ==
  \E r \in {parseSingle(tables, opts, inputDir, files, link, pageDirectory, filePathStem)} :
     /\ fits(r.tables)
     /\ linkCache' = r.tables.linkCache
     /\ objects' = r.tables.objects
     /\ deadLinks' = r.tables.deadLinks
     /\ ret' = [op |-> "parseSingle", document |-> <<>>, links |-> <<link>>, filePathStem |-> filePathStem,
                pageDirectory |-> pageDirectory, files |-> files,
                threw |-> r.threw, message |-> r.message,
                value |-> IF r.threw THEN <<>> ELSE <<r.value>>,
                hit |-> r.hit, lookups |-> r.lookups]
     /\ UNCHANGED <<inputDir, opts>>

ParseMultiple(links, pageDirectory, filePathStem, files) ==
  \E r \in {parseMultiple(tables, opts, inputDir, files, links, pageDirectory,
                            filePathStem, <<>>)} :
     /\ fits(r.tables)
     /\ linkCache' = r.tables.linkCache
     /\ objects' = r.tables.objects
     /\ deadLinks' = r.tables.deadLinks
     /\ ret' = [op |-> "parseMultiple", document |-> <<>>, links |-> links, filePathStem |-> filePathStem,
                pageDirectory |-> pageDirectory, files |-> files,
                threw |-> r.threw, message |-> r.message, value |-> r.value,
                hit |-> FALSE, lookups |-> 0]
     /\ UNCHANGED <<inputDir, opts>>

Find(document, pageDirectory, filePathStem, files) ==
  \E links \in {matched[document]} :
  \E r \in {parseMultiple(tables, opts, inputDir, files, links, pageDirectory,
                            filePathStem, <<>>)} :
     /\ fits(r.tables)
     /\ linkCache' = r.tables.linkCache
     /\ objects' = r.tables.objects
     /\ deadLinks' = r.tables.deadLinks
     /\ ret' = [op |-> "find", document |-> document, links |-> links, filePathStem |-> filePathStem,
                pageDirectory |-> pageDirectory, files |-> files,
                threw |-> r.threw, message |-> r.message, value |-> r.value,
                hit |-> FALSE, lookups |-> 0]
     /\ UNCHANGED <<inputDir, opts>>

SetInputDir(dir) ==
  /\ inputDir' = dir
  /\ UNCHANGED <<linkCache, objects, deadLinks, opts, ret>>

(***************************************************************************)
(* The engine runs: a parser constructed with the options of the tests,   *)
(* an empty cache and an empty dead-link set, and any calls on it.        *)
(***************************************************************************)
Init ==
  /\ linkCache = [link \in {} |-> 0]
  /\ objects = <<>>
  /\ deadLinks = {}
  /\ inputDir = cwd
  /\ opts = testOpts
  /\ ret = noCall

Next ==
  \/ \E link \in Links, pageDirectory \in PageDirectories, filePathStem \in FilePathStems :
       ParseSingle(link, pageDirectory, filePathStem, contentTree)
  \/ \E links \in LinkLists, pageDirectory \in PageDirectories,
        filePathStem \in FilePathStems :
       ParseMultiple(links, pageDirectory, filePathStem, contentTree)
  \/ \E document \in Documents, pageDirectory \in PageDirectories,
        filePathStem \in FilePathStems :
       Find(document, pageDirectory, filePathStem, contentTree)
  \/ \E dir \in InputDirs : SetInputDir(dir)

Spec == Init /\ [][Next]_vars

(***************************************************************************)
(* The single interpretations: the first parseSingle call of a parser,    *)
(* constructed with any of the options and with a cache that is empty or  *)
(* holds the record of a caller.                                           *)
(***************************************************************************)
InitParse ==
  /\ \/ linkCache = [link \in {} |-> 0] /\ objects = <<>>
     \/ linkCache = [link \in {seededMeta.link} |-> 1] /\ objects = <<seededMeta>>
  /\ deadLinks = {}
  /\ inputDir = cwd
  /\ opts \in Options
  /\ ret = noCall

NextParse ==
  \E link \in ParseLinks, pageDirectory \in PageDirectories,
     filePathStem \in ParseStems, files \in FileSystems :
    /\ ret = noCall
    /\ ParseSingle(link, pageDirectory, filePathStem, files)

SpecParse == InitParse /\ [][NextParse]_vars

(***************************************************************************)
(* Properties of the engine runs (Spec).                                   *)
(***************************************************************************)
\* C1: a parseSingle call on a link that is in the cache returns the very
\* record stored under it (the same reference), whatever page directory and
\* referencing path it is called with: it throws nothing, looks nothing up in
\* the page index and leaves linkCache, the records and deadLinks as they
\* were; and of two consecutive parseSingle calls on one link, the second
\* returns the reference the first returned.
C1_CachedLinkReturnsStoredRecord ==
  [][/\ \A link \in DOMAIN linkCache :
          (ret' # ret /\ ret'.op = "parseSingle" /\ ret'.links = <<link>>)
            => /\ ~ret'.threw
               /\ ret'.value = <<linkCache[link]>>
               /\ ret'.lookups = 0
               /\ linkCache' = linkCache
               /\ objects' = objects
               /\ deadLinks' = deadLinks
     /\ (/\ ret.op = "parseSingle" /\ ~ret.threw
         /\ ret' # ret /\ ret'.op = "parseSingle" /\ ret'.links = ret.links)
          => (~ret'.threw /\ ret'.value = ret.value)]_vars

\* a relative link, cached from a call with a referencing path, is returned
\* by a call without one on a page directory that does not hold its page
C1_RelativeLinkHitWithoutPath ==
  /\ ret.op = "parseSingle"
  /\ ret.links = <<<<"[", "[", ".", ".", "/", "a", "-", "b", "l", "o", "g", "-", "p", "o", "s", "t", ".", "m", "d", "]", "]">>>>
  /\ ret.filePathStem = undefined
  /\ ret.pageDirectory = "empty"
  /\ ~ret.threw
  /\ objects[ret.value[1]].exists
  /\ objects[ret.value[1]].page = blogPostPage

\* C2: over any calls of parseSingle, parseMultiple and find, returning or
\* throwing, linkCache and deadLinks only grow: a link in the cache stays in
\* it under the same reference, the record of that reference stays as it is,
\* and a link in deadLinks stays in deadLinks.
C2_TablesAppendOnly ==
  [][/\ \A link \in DOMAIN linkCache :
          /\ link \in DOMAIN linkCache'
          /\ linkCache'[link] = linkCache[link]
          /\ linkCache[link] \in DOMAIN objects'
          /\ objects'[linkCache[link]] = objects[linkCache[link]]
     /\ deadLinks \subseteq deadLinks']_vars

\* a find that threw on its second link, on tables that held records and dead
\* links before it
C2_FindThrewOnFilledTables ==
  /\ ret.op = "find"
  /\ ret.threw
  /\ Len(ret.links) = 3
  /\ Cardinality(DOMAIN linkCache) = MaxCache
  /\ Cardinality(deadLinks) >= 2
  /\ \E link \in DOMAIN linkCache : objects[linkCache[link]].exists

\* the links of the cache whose record did not resolve as a default link, a
\* default embed or an image
unresolvedLinks ==
  {link \in DOMAIN linkCache :
     /\ ~objects[linkCache[link]].exists
     /\ objects[linkCache[link]].resolvingFnName
          \in {<<"d", "e", "f", "a", "u", "l", "t">>, <<"d", "e", "f", "a", "u", "l", "t", "-", "e", "m", "b", "e", "d">>, <<"4", "0", "4", "-", "e", "m", "b", "e", "d">>}}

\* C3: from empty tables, deadLinks holds exactly the distinct links
\* interpreted so far that did not resolve as a default link, a default embed
\* or an image, each once however often it was interpreted, and no link that
\* resolved: its size is the number of those links.
C3_DeadLinksAreTheUnresolvedLinks ==
  /\ deadLinks = unresolvedLinks
  /\ Cardinality(deadLinks) = Cardinality(unresolvedLinks)
  /\ \A link \in DOMAIN linkCache :
       objects[linkCache[link]].exists => link \notin deadLinks

\* two distinct dead links, one of them just interpreted again, beside a link
\* that resolved
C3_TwoDeadLinksOneRepeated ==
  /\ ret.op = "parseSingle"
  /\ ret.hit
  /\ ret.links[1] \in deadLinks
  /\ Cardinality(deadLinks) = 2
  /\ \E link \in DOMAIN linkCache : objects[linkCache[link]].exists

(***************************************************************************)
(* Properties of the single interpretations (SpecParse).  The state after *)
(* the call holds the call in ret and the record it returned in objects.  *)
(***************************************************************************)
\* the parseSingle call interpreted its link: the link was not in the cache
interpretedCall == ret.op = "parseSingle" /\ ~ret.hit

\* the call interpreted its link and returned a record
returnedCall == interpretedCall /\ ~ret.threw

\* the link of the call and the record it returned
token == ret.links[1]

record == objects[ret.value[1]]

\* the call was made without a referencing path
withoutPath == ret.filePathStem \in {undefined, <<>>}

\* the position of the first c in s, and the text before and after it
firstIndex(s, c) == CHOOSE i \in 1..Len(s) : s[i] = c /\ \A j \in 1..(i - 1) : s[j] # c

textBefore(s, c) == SubSeq(s, 1, firstIndex(s, c) - 1)

textAfter(s, c) == SubSeq(s, firstIndex(s, c) + 1, Len(s))

\* s holds a c, and the character before the first c is not the escape '/'
unescaped(s, c) ==
  includes(s, c) /\ (firstIndex(s, c) = 1 \/ s[firstIndex(s, c) - 1] # "/")

\* text is part of s
contains(s, text) == indexOf(s, text) # 0

\* the link without the embed marker and the brackets
innerText(link) ==
  IF link[1] = "!" THEN SubSeq(link, 4, Len(link) - 2) ELSE SubSeq(link, 3, Len(link) - 2)

\* the name segment of the link: the trimmed text before the first '|'
nameSegment(link) ==
  trim(IF includes(innerText(link), "|") THEN textBefore(innerText(link), "|")
       ELSE innerText(link))

\* the name of the link after the title and the anchor are split off
splitName == anchorStep(newMeta(token)).name

\* splitName is a relative reference
relativeName == startsWith(splitName, <<".", "/">>) \/ startsWith(splitName, <<".", ".", "/">>)

\* the names parseSingle gives a record that no custom resolving fn handles
builtInFns == {<<"d", "e", "f", "a", "u", "l", "t">>, <<"d", "e", "f", "a", "u", "l", "t", "-", "e", "m", "b", "e", "d">>, <<"4", "0", "4", "-", "e", "m", "b", "e", "d">>, <<"i", "m", "a", "g", "e", "-", "e", "m", "b", "e", "d">>}

atResolver(meta, filePathStem) ==
  IF isRelative(meta) THEN relativeStep(meta, filePathStem) ELSE meta

resolverInput == atResolver(isPathStep(anchorStep(newMeta(token))), ret.filePathStem)

\* the call reached the custom resolving fn step
reachedResolver ==
  interpretedCall /\ ~(ret.threw /\ ret.message = MissingContextMessage)

\* the trimmed text before the first ':' of the name
prefix == trim(textBefore(resolverInput.name, ":"))

\* the prefix is no key of the configured resolvingFns, or none are configured
noResolvingFn == ~opts.resolvingFns.defined \/ prefix \notin opts.resolvingFns.keys

\* the page index reports a document for the name
documentFound == findByLink(ret.pageDirectory, resolverInput).found

\* what C5 says of a call whose name holds a ':' that counts as not escaped
resolverErrorRule ==
  /\ ret.threw <=> (noResolvingFn /\ ~documentFound)
  /\ ret.threw =>
       /\ contains(ret.message, <<"[">> \o prefix \o <<"]">>)
       /\ contains(ret.message, token)
       /\ contains(ret.message, <<"[">> \o toString(ret.filePathStem) \o <<"]">>)
  /\ (noResolvingFn /\ documentFound) =>
       /\ ~ret.threw
       /\ record.exists
       /\ record.page = findByLink(ret.pageDirectory, resolverInput).page
       /\ record.resolvingFnName \in {<<"d", "e", "f", "a", "u", "l", "t">>, <<"d", "e", "f", "a", "u", "l", "t", "-", "e", "m", "b", "e", "d">>}

\* C5 as stated: for a link that is not in the cache and whose name holds a
\* ':' not preceded by '/', parseSingle throws the resolving fn error exactly
\* when the text before the first ':' is no registered resolving fn and the
\* page index has no document for the name; the message names the prefix, the
\* link and the referencing path; with a document found nothing is thrown and
\* the record resolves to it under a default resolvingFnName.
C5_ResolverErrorAsStated ==
  (reachedResolver /\ unescaped(resolverInput.name, ":")) => resolverErrorRule

\* C5 with the escape as line 216 tests it, the ':' being escaped when the
\* trimmed text before the first ':' ends with '/': the rule of C5 holds.
C5_ResolverError ==
  (/\ reachedResolver
   /\ includes(resolverInput.name, ":")
   /\ atLast(prefix) # <<"/">>) => resolverErrorRule

\* '[[a/ :b]]', whose ':' follows a space, is taken as escaped: nothing is
\* thrown though no resolving fn is configured and no document is found, and
\* the link is returned as a dead link under its whole name
C5_SpacedEscapeNotThrown ==
  /\ returnedCall
  /\ token = <<"[", "[", "a", "/", " ", ":", "b", "]", "]">>
  /\ opts = bareOpts
  /\ ret.pageDirectory = "empty"
  /\ record.name = <<"a", "/", " ", ":", "b">>
  /\ ~record.exists
  /\ token \in deadLinks

\* C6: for a link that is not in the cache and whose name, after the title
\* and the anchor are split off, starts with './' or '../', parseSingle
\* without a referencing path (undefined or empty) throws the relative path
\* lookup error before any page index lookup, and with a referencing path does
\* not throw it; a name that is absolute or a bare identifier never throws it.
C6_MissingContextError ==
  interpretedCall =>
    /\ (relativeName /\ withoutPath) =>
         (ret.threw /\ ret.message = MissingContextMessage /\ ret.lookups = 0)
    /\ (relativeName /\ ~withoutPath) =>
         ~(ret.threw /\ ret.message = MissingContextMessage)
    /\ ~relativeName => ~(ret.threw /\ ret.message = MissingContextMessage)

\* a relative link called with the empty referencing path threw
C6_RelativeLinkWithEmptyPathThrew ==
  /\ interpretedCall
  /\ token = <<"[", "[", ".", "/", "s", "i", "b", "l", "i", "n", "g", "]", "]">>
  /\ ret.filePathStem = <<>>
  /\ ret.pageDirectory = "website"
  /\ ret.threw
  /\ ret.message = MissingContextMessage
  /\ linkCache = [link \in {} |-> 0]

\* C7 as stated: for a link that is not in the cache, whose name holds a ':'
\* not preceded by '/' and whose text before the first ':' is a registered
\* resolving fn, the record has that prefix as resolvingFnName and the whole
\* trimmed text after the first ':' as name, further ':' included; with the
\* ':' escaped as '/:' the record keeps a built-in resolvingFnName and the
\* name holds the ':' without the '/'.  (Image embeds, whose resolvingFnName
\* the image step sets, are left out.)
C7_ResolverSplitAsStated ==
  (reachedResolver /\ includes(resolverInput.name, ":")) =>
    /\ (/\ unescaped(resolverInput.name, ":")
        /\ ~noResolvingFn
        /\ ~ret.threw
        /\ ~record.isImage) =>
         /\ record.resolvingFnName = prefix
         /\ record.name = trim(textAfter(resolverInput.name, ":"))
    /\ ~unescaped(resolverInput.name, ":") =>
         /\ ~ret.threw
         /\ record.resolvingFnName \in builtInFns
         /\ record.name = replace(resolverInput.name, <<"/", ":">>, <<":">>)

\* '[[test:a:b]]' with the resolving fn test registered: the name is 'a'
C7_SecondColonDropped ==
  /\ returnedCall
  /\ token = <<"[", "[", "t", "e", "s", "t", ":", "a", ":", "b", "]", "]">>
  /\ opts = customOpts
  /\ record.resolvingFnName = <<"t", "e", "s", "t">>
  /\ record.name = <<"a">>

\* C8 as stated: the text between the brackets is split on its first '|':
\* the title is the trimmed text after that '|' whenever there is one, further
\* '|' included, and null when there is none and no document title fills it
\* in; white space around the segments changes nothing.  (Records found by an
\* alias, whose title is the alias, and the default title of a found image
\* are left out.)
C8_TitleSplitAsStated ==
  /\ newMeta(<<"[", "[", " ", "n", "a", "m", "e", " ", "|", " ", "t", "i", "t", "l", "e", " ", "]", "]">>).name = newMeta(<<"[", "[", "n", "a", "m", "e", "|", "t", "i", "t", "l", "e", "]", "]">>).name
  /\ newMeta(<<"[", "[", " ", "n", "a", "m", "e", " ", "|", " ", "t", "i", "t", "l", "e", " ", "]", "]">>).title = newMeta(<<"[", "[", "n", "a", "m", "e", "|", "t", "i", "t", "l", "e", "]", "]">>).title
  /\ (returnedCall /\ ~(record.exists /\ record.name \in record.page.aliases)) =>
       IF includes(innerText(token), "|")
         THEN record.title = trim(textAfter(innerText(token), "|"))
         ELSE \/ record.title = null
              \/ record.exists /\ ~record.isImage /\ record.title = record.page.title
              \/ record.exists /\ record.isImage

\* '[[a|b|c]]', which the wikilink expression matches: the title is null
C8_TitleWithBarIsNull ==
  /\ returnedCall
  /\ token = <<"[", "[", "a", "|", "b", "|", "c", "]", "]">>
  /\ matchAll(token) = <<token>>
  /\ record.name = <<"a">>
  /\ record.title = null

\* C9 as stated: a name segment with a '#' not preceded by '/' is split on
\* the first '#' into the trimmed name before it and the whole trimmed anchor
\* after it; with the '#' escaped as '/#' the anchor stays null and the name
\* holds the '#' without the '/'; without '#' the anchor is null.  (Links
\* whose name a later step rewrites, relative ones and ones with a ':', are
\* left out.)
C9_AnchorSplitAsStated ==
  (returnedCall /\ ~includes(nameSegment(token), ":")
                /\ ~startsWith(nameSegment(token), <<".">>)) =>
    /\ unescaped(nameSegment(token), "#") =>
         /\ record.name = trim(textBefore(nameSegment(token), "#"))
         /\ record.anchor = trim(textAfter(nameSegment(token), "#"))
    /\ (includes(nameSegment(token), "#") /\ ~unescaped(nameSegment(token), "#")) =>
         /\ record.anchor = null
         /\ record.name = replace(nameSegment(token), <<"/", "#">>, <<"#">>)
    /\ ~includes(nameSegment(token), "#") => record.anchor = null

\* '[[a#b#c]]': the anchor is 'b'
C9_SecondHashDropped ==
  /\ returnedCall
  /\ token = <<"[", "[", "a", "#", "b", "#", "c", "]", "]">>
  /\ record.name = <<"a">>
  /\ record.anchor = <<"b">>

\* the number of leading '..' segments
RECURSIVE leadingStepsBack(_)
leadingStepsBack(segments) ==
  IF Len(segments) > 0 /\ segments[1] = <<".", ".">>
    THEN 1 + leadingStepsBack(Tail(segments))
    ELSE 0

\* the segments of P without the last k + 1, then the segments of the
\* reference that are neither '.' nor '..', joined with '/'
fromRoot(P, reference) ==
  join(sliceOff(split(P, "/"), leadingStepsBack(split(reference, "/")) + 1)
         \o SelectSeq(split(reference, "/"),
                      LAMBDA segment : segment # <<".", ".">> /\ segment # <<".">>),
       "/")

\* C10 as stated: a name that starts with './' or '../', interpreted with
\* the referencing path P, gives isPath true and the name rewritten to a path
\* from the root that starts with '/': the segments of P without the last
\* k + 1, k the number of leading '../' steps, then the remaining segments of
\* the reference; a name that starts with '/' has isPath true and is left as
\* it is; a bare identifier has isPath false.  (Links with a ':', whose name
\* the custom resolving fn step rewrites, are left out.)
C10_RelativePathAsStated ==
  (returnedCall /\ ~includes(splitName, ":")) =>
    /\ relativeName =>
         /\ record.isPath
         /\ startsWith(record.name, <<"/">>)
         /\ record.name = fromRoot(ret.filePathStem, splitName)
    /\ startsWith(splitName, <<"/">>) => (record.isPath /\ record.name = splitName)
    /\ (~relativeName /\ ~startsWith(splitName, <<"/">>)) => ~record.isPath

\* '[[./a/../b]]' from '/blog/sub-dir/some-page': the '..' inside the
\* reference counts as a step back, and the name is '/blog/a/b'
C10_InnerStepBackCounted ==
  /\ returnedCall
  /\ token = <<"[", "[", ".", "/", "a", "/", ".", ".", "/", "b", "]", "]">>
  /\ ret.filePathStem = <<"/", "b", "l", "o", "g", "/", "s", "u", "b", "-", "d", "i", "r", "/", "s", "o", "m", "e", "-", "p", "a", "g", "e">>
  /\ record.isPath
  /\ record.name = <<"/", "b", "l", "o", "g", "/", "a", "/", "b">>

\* C11 as stated: for a link that is not in the cache, embed or plain link,
\* the record has isImage = true exactly when its name ends, without regard
\* to case, with one of the extensions of the configured imageExtensions
\* option; and when isImage is true no page index lookup is made.
C11_ImageDetectionAsStated ==
  (returnedCall /\ opts.imageExtensions.defined) =>
    /\ record.isImage <=>
         \E ext \in opts.imageExtensions.items :
           endsWith(toLowerCase(record.name), toLowerCase(ext))
    /\ record.isImage => ret.lookups = 0

\* the plain link '[[photo.JPG]]' with '.jpg' configured: isImage is false
\* and the page index is asked
C11_PlainImageLinkIsNoImage ==
  /\ returnedCall
  /\ token = <<"[", "[", "p", "h", "o", "t", "o", ".", "J", "P", "G", "]", "]">>
  /\ opts = testOpts
  /\ record.name = <<"p", "h", "o", "t", "o", ".", "J", "P", "G">>
  /\ ~record.isImage
  /\ record.resolvingFnName = <<"d", "e", "f", "a", "u", "l", "t">>
  /\ ret.lookups = 1

\* what findImageFile returns for the name of the returned record
assetResult == findImageFile(ret.files, record.name, inputDir, ret.filePathStem)

\* the title segment of the link: the trimmed text after the first '|', or
\* null when the link has no '|'
titleSegment(link) ==
  IF includes(innerText(link), "|") THEN trim(textAfter(innerText(link), "|"))
  ELSE null

\* the base file name of name without its extension
fileStem(name) == basename(name, extname(name))

isWikilink(s) ==
  \E first \in {IF Len(s) > 0 /\ s[1] = "!" THEN 2 ELSE 1} :
    /\ Len(s) >= first + 4
    /\ SubSeq(s, first, first + 1) = <<"[", "[">>
    /\ SubSeq(s, Len(s) - 1, Len(s)) = <<"]", "]">>
    /\ \E inner \in {SubSeq(s, first + 2, Len(s) - 2)} :
         /\ ~includes(inner, "\n")
         /\ IF includes(inner, "|")
              THEN Len(textBefore(inner, "|")) > 0 /\ Len(textAfter(inner, "|")) > 0
              ELSE TRUE

\* the ends of the wikilinks that start at position i of the document; none
\* starts right after a '!'
wikilinkEnds(document, i) ==
  {end \in i..Len(document) :
     (i = 1 \/ document[i - 1] # "!") /\ isWikilink(SubSeq(document, i, end))}

\* the wikilinks of the document from position i on, left to right and not
\* overlapping: at each position the shortest wikilink that starts there
RECURSIVE wikilinksFrom(_, _)
shortestFrom(document, i, ends) ==
  IF ends = {} THEN wikilinksFrom(document, i + 1)
  ELSE <<SubSeq(document, i, CHOOSE e \in ends : \A x \in ends : e <= x)>>
         \o wikilinksFrom(document, (CHOOSE e \in ends : \A x \in ends : e <= x) + 1)

wikilinksFrom(document, i) ==
  IF i > Len(document) THEN <<>>
  ELSE shortestFrom(document, i, wikilinkEnds(document, i))

wikilinks == [document \in Documents |-> wikilinksFrom(document, 1)]

\* C13: a find that returns gives one record for each wikilink of the
\* document, in the order of the document and with repeated links repeated;
\* the i-th record is the cached record of the i-th wikilink and has that
\* wikilink as link. A '[[...]]' with a newline in it gives no record.
C13_FindReturnsARecordPerWikilink ==
  (ret.op = "find" /\ ~ret.threw) =>
    /\ Len(ret.value) = Len(wikilinks[ret.document])
    /\ \A i \in 1..Len(ret.value) :
         /\ wikilinks[ret.document][i] \in DOMAIN linkCache
         /\ ret.value[i] = linkCache[wikilinks[ret.document][i]]
         /\ objects[ret.value[i]].link = wikilinks[ret.document][i]
         /\ ~includes(objects[ret.value[i]].link, "\n")

\* find on a document that names '[[hello-world]]' twice with '![[invalid]]'
\* in between returned three records, the first and the third the same
C13_RepeatedLinkReturnedTwice ==
  /\ ret.op = "find"
  /\ ~ret.threw
  /\ Len(ret.value) = 3
  /\ ret.value[1] = ret.value[3]
  /\ ret.value[1] # ret.value[2]
  /\ objects[ret.value[1]].link = <<"[", "[", "h", "e", "l", "l", "o", "-", "w", "o", "r", "l", "d", "]", "]">>
  /\ objects[ret.value[2]].link = <<"!", "[", "[", "i", "n", "v", "a", "l", "i", "d", "]", "]">>

\* s without the last n characters
dropLast(s, n) == SubSeq(s, 1, Len(s) - n)

\* C14 as stated: the name the title split gives is the trimmed name segment
\* without a trailing '.md' or '.markdown' (a dot and md or markdown, in any
\* case); a name segment that does not end so is left as it is.
C14_WorkingNameAsStated ==
  interpretedCall =>
    newMeta(token).name =
      IF endsWith(toLowerCase(nameSegment(token)), <<".", "m", "d">>)
        THEN dropLast(nameSegment(token), 3)
      ELSE IF endsWith(toLowerCase(nameSegment(token)), <<".", "m", "a", "r", "k", "d", "o", "w", "n">>)
        THEN dropLast(nameSegment(token), 9)
      ELSE nameSegment(token)

\* '[[amd]]' has no '.md' extension, and is returned with the empty name
C14_NameWithoutDotStripped ==
  /\ returnedCall
  /\ token = <<"[", "[", "a", "m", "d", "]", "]">>
  /\ nameSegment(token) = <<"a", "m", "d">>
  /\ newMeta(token).name = <<>>
  /\ record.name = <<>>
  /\ token \in deadLinks

\* the record as it is when the page index is asked: after the resolving fn
\* step
lookedUp == resolverStep(opts, resolverInput)

\* C15: when the page index is asked and has no page for the record, a
\* record that is still 'default' or 'default-embed' has its link added to
\* deadLinks and the stubUrl as href, and becomes '404-embed' only when the
\* link is an embed; a record given to a registered custom resolving fn is
\* not added to deadLinks, keeps its resolvingFnName and gets no href.  In
\* each case exists stays false and the record is cached and returned.
C15_PageNotFound ==
  (returnedCall /\ ~record.isImage
     /\ ~findByLink(ret.pageDirectory, lookedUp).found) =>
    /\ ~record.exists
    /\ token \in DOMAIN linkCache
    /\ linkCache[token] = ret.value[1]
    /\ IF lookedUp.resolvingFnName \in {<<"d", "e", "f", "a", "u", "l", "t">>, <<"d", "e", "f", "a", "u", "l", "t", "-", "e", "m", "b", "e", "d">>}
         THEN /\ token \in deadLinks
              /\ record.href = opts.stubUrl
              /\ record.resolvingFnName =
                   IF token[1] = "!" THEN <<"4", "0", "4", "-", "e", "m", "b", "e", "d">> ELSE <<"d", "e", "f", "a", "u", "l", "t">>
         ELSE /\ token \notin deadLinks
              /\ record.resolvingFnName = prefix
              /\ prefix \in opts.resolvingFns.keys
              /\ record.href = undefined

\* '[[test:1234]]' with the resolving fn 'test' registered and no page
\* '1234': returned under 'test', not dead and without href
C15_CustomLinkWithoutPageIsNotDead ==
  /\ returnedCall
  /\ token = <<"[", "[", "t", "e", "s", "t", ":", "1", "2", "3", "4", "]", "]">>
  /\ opts = customOpts
  /\ ~record.exists
  /\ record.resolvingFnName = <<"t", "e", "s", "t">>
  /\ record.name = <<"1", "2", "3", "4">>
  /\ record.href = undefined
  /\ deadLinks = {}
  /\ linkCache[token] = ret.value[1]

\* the tables after the step
tablesAfter == [linkCache |-> linkCache', objects |-> objects', deadLinks |-> deadLinks']

\* the call of the step threw on the k-th of its links: the links before it
\* are cached after the step and the k-th is not
threwAt(k) ==
  /\ ret'.threw
  /\ k \in 1..Len(ret'.links)
  /\ ret'.links[k] \notin DOMAIN linkCache'
  /\ \A j \in 1..(k - 1) : ret'.links[j] \in DOMAIN linkCache'

\* C16: a parseSingle that throws leaves linkCache and deadLinks as they
\* were, the link neither cached nor dead; a parseMultiple or find that throws
\* on a link leaves the tables as the calls on the links before that link
\* made them.
C16_ThrowingCallKeepsTables ==
  [][ret'.threw =>
       /\ \E k \in 1..Len(ret'.links) : threwAt(k)
       /\ \A k \in 1..Len(ret'.links) :
            threwAt(k) =>
              /\ ret'.links[k] \notin deadLinks'
              /\ DOMAIN linkCache' =
                   DOMAIN linkCache \cup {ret'.links[j] : j \in 1..(k - 1)}
              /\ deadLinks' \ deadLinks \subseteq {ret'.links[j] : j \in 1..(k - 1)}
              /\ \E r \in {parseMultiple(tables, opts, inputDir, ret'.files,
                                         SubSeq(ret'.links, 1, k - 1),
                                         ret'.pageDirectory, ret'.filePathStem, <<>>)} :
                   ~r.threw /\ r.tables = tablesAfter
       /\ ret'.op = "parseSingle" =>
            linkCache' = linkCache /\ objects' = objects /\ deadLinks' = deadLinks]_vars

\* a find on an empty cache that threw on the relative link
\* '[[../a-blog-post.md]]' after '[[invalid]]': only '[[invalid]]' is cached
\* and dead
C16_FindThrewAfterFirstLink ==
  /\ ret.op = "find"
  /\ ret.threw
  /\ ret.message = MissingContextMessage
  /\ ret.links[2] = <<"[", "[", ".", ".", "/", "a", "-", "b", "l", "o", "g", "-", "p", "o", "s", "t", ".", "m", "d", "]", "]">>
  /\ DOMAIN linkCache = {<<"[", "[", "i", "n", "v", "a", "l", "i", "d", "]", "]">>}
  /\ deadLinks = {<<"[", "[", "i", "n", "v", "a", "l", "i", "d", "]", "]">>}
  /\ Len(objects) = 1

====
